---- MODULE Spec2Model ----
(***************************************************************************)
(* Rental / payment lifecycle of the car-rental back office.               *)
(*                                                                         *)
(* The database (tables cars, rentals, payments) is shared by several      *)
(* operators, each running the Rentals page in a browser.  Every supabase  *)
(* call is one atomic step on the database; a handler that awaits several  *)
(* calls is a sequence of steps, and other operators' steps may come in    *)
(* between.  A supabase call does not throw: it answers {data, error}; the *)
(* parameter ok of a step says whether the call succeeded.                 *)
(*                                                                         *)
(* Money is counted in whole currency units and a date is a day number.    *)
(* The browser's constraint validation of the form inputs (min, max) is    *)
(* part of a submission: the forms do not set noValidate.                  *)
(***************************************************************************)
EXTENDS Integers, Sequences, FiniteSets, TLC

\* ---------------------------------------------------------------- bounds
MaxRentals == 2
MaxPayments == 2
MaxDays == 3
MaxCars == 2
MaxExtraRows == 2
MaxPending == 2

\* the browser sessions that exist, and the ones that act in Spec
Operators == {"op1", "op2"}
Sessions == {"op1"}
CarIds == {1}
CustomerIds == {1}

\* new Date(): the current day; NoDate is the empty date input / null return_date
Today == 2
NoDate == 0
\* the value of a <select> whose placeholder option is chosen (NaN, never positive)
Unselected == 0

RentalDates == {Today}
ReturnDates == {NoDate, Today - 1, Today, Today + 1, Today + MaxDays}
AmountInputs == {0 - 60, 0, 60, 90, 150}

\* the car form: the status select and the daily rates typed in
CarStatuses == {"Available", "Rented", "Maintenance"}
DailyRateInputs == {0, 50}
\* CarModal without a car: the Add Car form
NoCar == 0

\* ------------------------------------------------------------ the tables
VARIABLES
    cars,           \* car_id -> [status, daily_rate]
    rentals,        \* sequence of rental rows; rental_id is the index
    payments,       \* sequence of payment rows
    pc,             \* per operator: where its current handler stands
    rentalsView,    \* Rentals.rentals: the rental rows last fetched
    availableCars,  \* RentalModal.availableCars: car_id -> row, fetched on mount
    form,           \* RentalModal: the values of the New Rental form
    totalCost,      \* RentalModal.totalCost
    selectedRental, \* Rentals.selectedRental, the PaymentModal's rental prop
    totalPaid,      \* PaymentModal.totalPaid
    cur,            \* locals and answers of the handler that ran last
    toast,          \* the notifications the latest handler raised
    stats,          \* Reports.stats, with the cutoff its timeframe gave
    auth            \* per session: the auth store, the router's location, the screen

vars == <<cars, rentals, payments, pc, rentalsView, availableCars, form, totalCost,
          selectedRental, totalPaid, cur, toast, stats, auth>>

db == <<cars, rentals, payments>>

NoRental == [rental_id |-> 0, customer_id |-> 0, car_id |-> 0, rental_date |-> NoDate,
             return_date |-> NoDate, total_cost |-> 0, status |-> "none"]

NoArg == [customer_id |-> 0, car_id |-> 0, rental_date |-> NoDate,
          expected_return_date |-> NoDate, total_cost |-> 0]

NoCur == [rid |-> 0, car |-> 0, arg |-> NoArg, newTotalPaid |-> 0, returnDate |-> NoDate,
          pend |-> {}, err |-> {}]

\* handleSubmit found the form invalid (formState.errors, or the browser's
\* validation message): onSubmit is not called
Rejected == [NoCur EXCEPT !.err = {"validation"}]

\* useForm defaultValues of the New Rental form
DefaultForm == [customer_id |-> Unselected, car_id |-> Unselected,
                rental_date |-> Today, expected_return_date |-> Today]

InitialCars == [c \in CarIds |-> [status |-> "Available", daily_rate |-> 50 * c]]

\* ------------------------------------------------------------- messages
\* A notification: its text and, for the partial payment one, the balance shown
Notice(text) == [text |-> text, balance |-> 0]
MsgRentalCreated == Notice("Rental created successfully")
MsgRentalCreateFailed == Notice("Failed to create rental")
MsgRentalCancelled == Notice("Rental cancelled successfully")
MsgRentalCancelFailed == Notice("Failed to cancel rental")
MsgFetchRentalsFailed == Notice("Failed to fetch rentals")
MsgFetchCarsFailed == Notice("Failed to fetch available cars")
MsgFetchPaymentsFailed == Notice("Failed to fetch payment history")
MsgPaymentFailed == Notice("Failed to process payment")
MsgCarCreated == Notice("Car created successfully")
MsgCarUpdated == Notice("Car updated successfully")
MsgCarCreateFailed == Notice("Failed to create car")
MsgCarUpdateFailed == Notice("Failed to update car")
MsgFetchStatsFailed == Notice("Failed to fetch report statistics")
MsgFullPayment == Notice("Full payment processed and rental completed")
MsgPartialPayment(remaining) ==
    [text |-> "Partial payment processed. Remaining balance: $", balance |-> remaining]

\* new Error('Rental not found')
RentalNotFound == "Rental not found"

\* ------------------------------------------------------ pure computations
Max(a, b) == IF a >= b THEN a ELSE b

\* date-fns differenceInDays(left, right) on two calendar dates: the number of
\* full days from right to left, with no daylight-saving change in between
differenceInDays(left, right) == left - right

RECURSIVE SumAmounts(_)
SumAmounts(rows) ==
    IF rows = <<>> THEN 0 ELSE Head(rows).amount + SumAmounts(Tail(rows))

\* supabase.from('payments').select('amount').eq('rental_id', id)
PaymentsOf(id) == SelectSeq(payments, LAMBDA p : p.rental_id = id)

\* data.filter(car => car.status === 'Available')
AvailableFilter ==
    LET ids == {c \in DOMAIN cars : cars[c].status = "Available"}
    IN [c \in ids |-> cars[c]]

\* the total cost without the floor of one day
TotalCostNoFloor(o, car_id, rental_date, expected_return_date) ==
    IF car_id \in DOMAIN availableCars[o] /\ rental_date # NoDate
       /\ expected_return_date # NoDate
    THEN differenceInDays(expected_return_date, rental_date)
         * availableCars[o][car_id].daily_rate
    ELSE 0

\* the second and third effect of RentalModal: selectedCar, then totalCost
TotalCostEffect(o, car_id, rental_date, expected_return_date) ==
    IF car_id \in DOMAIN availableCars[o] /\ rental_date # NoDate
       /\ expected_return_date # NoDate
    THEN Max(1, differenceInDays(expected_return_date, rental_date))
         * availableCars[o][car_id].daily_rate
    ELSE 0

\* zodResolver(rentalSchema)
RentalSchemaOk(customer_id, car_id, rental_date, expected_return_date) ==
    /\ customer_id > 0
    /\ car_id > 0
    /\ rental_date # NoDate
    /\ expected_return_date # NoDate

\* <input type="date" min=...> of the two date inputs
RentalInputsOk(rental_date, expected_return_date) ==
    /\ rental_date # NoDate => rental_date >= Today
    /\ (expected_return_date # NoDate /\ rental_date # NoDate)
          => expected_return_date >= rental_date

\* zodResolver(carSchema); filled: brand, model and license plate are not
\* empty and the year is in range
CarSchemaOk(filled, status, daily_rate) ==
    /\ filled
    /\ status \in CarStatuses
    /\ daily_rate > 0

\* a payment schema that accepts every amount
PaymentSchemaAny(amount) == TRUE

\* a payment schema with nonnegative() in the place of positive()
PaymentSchemaNonNegative(amount) == amount >= 0 /\ amount <= 1000000

\* zodResolver(paymentSchema)
PaymentSchemaOk(amount) == amount > 0 /\ amount <= 1000000

\* const remainingBalance = rental ? rental.total_cost - totalPaid : 0
RemainingBalance(o) ==
    IF selectedRental[o].rental_id # 0
    THEN selectedRental[o].total_cost - totalPaid[o]
    ELSE 0

\* <input type="number" max={remainingBalance}>
PaymentInputOk(o, amount) == amount <= RemainingBalance(o)

\* const isComplete = newTotalPaid >= rental.total_cost
IsComplete(newTotalPaid, total_cost) == newTotalPaid >= total_cost

\* rows of the view that show the Complete and Cancel buttons
OngoingInView(o) ==
    {i \in 1..Len(rentalsView[o]) : rentalsView[o][i].status = "Ongoing"}

\* a car update that never takes effect
SetCarStatusNever(ok, car_id, status) == cars

\* a car update that takes effect whatever the database answers
SetCarStatusAnyway(ok, car_id, status) ==
    IF car_id \in DOMAIN cars
    THEN [cars EXCEPT ![car_id].status = status]
    ELSE cars

\* a failed .update() leaves the table as it is
SetCarStatus(ok, car_id, status) ==
    IF ok /\ car_id \in DOMAIN cars
    THEN [cars EXCEPT ![car_id].status = status]
    ELSE cars

\* ---------------------------------------------------------------- reports
\* .slice(0, 5)
TopN == 5

Min(a, b) == IF a <= b THEN a ELSE b

\* Reports.stats === null
NoStats == [startDate |-> NoDate, totalRevenue |-> 0, topCars |-> <<>>,
            topCustomers |-> <<>>]

\* data.reduce((sum, rental) => sum + rental.total_cost, 0)
RECURSIVE SumTotalCost(_)
SumTotalCost(rows) ==
    IF rows = <<>> THEN 0 ELSE Head(rows).total_cost + SumTotalCost(Tail(rows))

\* a revenue query without the status filter
getRevenueOfAll(startDate) ==
    SumTotalCost(SelectSeq(rentals, LAMBDA r : r.rental_date >= startDate))

\* reportService.getRevenue: .gte('rental_date', startDate).eq('status', 'Completed')
getRevenue(startDate) ==
    SumTotalCost(SelectSeq(rentals, LAMBDA r : r.rental_date >= startDate
                                               /\ r.status = "Completed"))

\* .gte('rental_date', startDate).neq('status', 'Cancelled')
RowsSince(startDate) ==
    SelectSeq(rentals, LAMBDA r : r.rental_date >= startDate /\ r.status # "Cancelled")

\* the reduce of getTopCars: acc is an object keyed by car_id
RECURSIVE CarCounts(_, _)
CarCounts(rows, acc) ==
    IF rows = <<>> THEN acc
    ELSE LET rental == Head(rows)
             acc1 == IF rental.car_id \in DOMAIN acc THEN acc
                     ELSE acc @@ (rental.car_id :> [car |-> rental.car_id, rental_count |-> 0])
         IN CarCounts(Tail(rows), [acc1 EXCEPT ![rental.car_id].rental_count = @ + 1])

\* the reduce of getTopCustomers: acc is an object keyed by customer_id
RECURSIVE CustomerStats(_, _)
CustomerStats(rows, acc) ==
    IF rows = <<>> THEN acc
    ELSE LET rental == Head(rows)
             acc1 == IF rental.customer_id \in DOMAIN acc THEN acc
                     ELSE acc @@ (rental.customer_id :>
                                    [customer |-> rental.customer_id, rental_count |-> 0,
                                     total_spent |-> 0])
         IN CustomerStats(Tail(rows),
                [acc1 EXCEPT ![rental.customer_id].rental_count = @ + 1,
                             ![rental.customer_id].total_spent = @ + rental.total_cost])

\* Object.values of an object whose keys are integers: the values in
\* ascending order of the keys
RECURSIVE ObjectValues(_)
ObjectValues(acc) ==
    IF DOMAIN acc = {} THEN <<>>
    ELSE LET k == CHOOSE x \in DOMAIN acc : \A y \in DOMAIN acc : x <= y
         IN <<acc[k]>> \o ObjectValues([y \in DOMAIN acc \ {k} |-> acc[y]])

\* entry put into a list sorted by key, descending, behind the entries that
\* do not compare after it
InsertDescending(list, entry, key) ==
    LET ahead == {i \in 1..Len(list) : list[i][key] >= entry[key]}
        n == IF ahead = {} THEN 0 ELSE CHOOSE i \in ahead : \A j \in ahead : j <= i
    IN SubSeq(list, 1, n) \o <<entry>> \o SubSeq(list, n + 1, Len(list))

\* no sort at all
Unsorted(list, key) == list

\* .sort((a, b) => b[key] - a[key]): Array.prototype.sort is stable
RECURSIVE SortDescending(_, _)
SortDescending(list, key) ==
    IF list = <<>> THEN <<>>
    ELSE InsertDescending(SortDescending(SubSeq(list, 1, Len(list) - 1), key),
                          list[Len(list)], key)

\* .slice(0, 5)
Slice(list) == SubSeq(list, 1, Min(TopN, Len(list)))

\* reportService.getTopCars
getTopCars(startDate) ==
    Slice(SortDescending(ObjectValues(CarCounts(RowsSince(startDate), <<>>)),
                         "rental_count"))

\* top customers sorted by their number of rentals
getTopCustomersByCount(startDate) ==
    Slice(SortDescending(ObjectValues(CustomerStats(RowsSince(startDate), <<>>)),
                         "rental_count"))

\* reportService.getTopCustomers
getTopCustomers(startDate) ==
    Slice(SortDescending(ObjectValues(CustomerStats(RowsSince(startDate), <<>>)),
                         "total_spent"))

\* ------------------------------------------------------ authentication
\* the routes of App: /login and two of the protected ones
LoginPath == "/login"
Paths == {LoginPath, "/dashboard", "/rentals"}

\* the store's user: null, or the User the identity provider answers
NoUser == "null"
TheUser == "user"

\* what auth.getCurrentUser settles with: a user, null, or a rejection
Answers == {"user", "null", "throw"}

\* ProtectedRoute that shows its children while the store is loading
RenderWithoutSpinner(user, isLoading) ==
    IF user = NoUser THEN "blank" ELSE "content"

\* what ProtectedRoute returns: the spinner, null, or its children
RenderProtected(user, isLoading) ==
    IF isLoading THEN "spinner"
    ELSE IF user = NoUser THEN "blank"
    ELSE "content"

\* React commits a change of the store or of the location: on /login the
\* Login page shows; elsewhere ProtectedRoute renders and its second effect
\* runs, which replaces the location by /login when there is no user
Commit(a) ==
    IF a.location = LoginPath THEN [a EXCEPT !.screen = "login"]
    ELSE IF ~a.isLoading /\ a.user = NoUser
    THEN [a EXCEPT !.location = LoginPath, !.screen = "login"]
    ELSE [a EXCEPT !.screen = RenderProtected(a.user, a.isLoading)]

\* the store as create() makes it, in a page just loaded at path; a protected
\* path mounts ProtectedRoute, whose first effect calls initialize
LoadPage(path) ==
    Commit([user |-> NoUser, isLoading |-> TRUE, location |-> path, screen |-> "login",
            pending |-> IF path = LoginPath THEN 0 ELSE 1,
            answer |-> "none", signingOut |-> FALSE])

\* a session whose user is signed in and looks at the Rentals page
SignedIn ==
    [user |-> TheUser, isLoading |-> FALSE, location |-> "/rentals", screen |-> "content",
     pending |-> 0, answer |-> "user", signingOut |-> FALSE]

\* an initialize whose catch branch leaves isLoading as it was
InitializeKeepsLoading(a, answer) ==
    IF answer = "throw"
    THEN [a EXCEPT !.user = NoUser]
    ELSE [a EXCEPT !.user = IF answer = "user" THEN TheUser ELSE NoUser,
                   !.isLoading = FALSE]

\* useAuthStore.initialize once auth.getCurrentUser has settled with answer
Initialize(a, answer) ==
    IF answer = "throw"
    THEN [a EXCEPT !.user = NoUser, !.isLoading = FALSE]
    ELSE [a EXCEPT !.user = IF answer = "user" THEN TheUser ELSE NoUser,
                   !.isLoading = FALSE]

\* ------------------------------------------------------------------ Init
Init ==
    /\ cars = InitialCars
    /\ rentals = <<>>
    /\ payments = <<>>
    /\ pc = [o \in Operators |-> "idle"]
    /\ rentalsView = [o \in Operators |-> <<>>]
    /\ availableCars = [o \in Operators |-> <<>>]
    /\ form = [o \in Operators |-> DefaultForm]
    /\ totalCost = [o \in Operators |-> 0]
    /\ selectedRental = [o \in Operators |-> NoRental]
    /\ totalPaid = [o \in Operators |-> 0]
    /\ cur = [o \in Operators |-> NoCur]
    /\ toast = [o \in Operators |-> {}]
    /\ stats = [o \in Operators |-> NoStats]
    /\ auth = [o \in Operators |-> SignedIn]

\* ------------------------------------------------------------- actions

\* The Rentals page is (re)loaded: fetchRentals and the RentalModal's
\* fetchAvailableCars run, all component state starts from its initial value.
Mount(o, okRentals, okCars) ==
    /\ pc[o] = "idle"
    /\ rentalsView' = [rentalsView EXCEPT ![o] = IF okRentals THEN rentals ELSE <<>>]
    /\ availableCars' = [availableCars EXCEPT ![o] = IF okCars THEN AvailableFilter ELSE <<>>]
    /\ form' = [form EXCEPT ![o] = DefaultForm]
    /\ totalCost' = [totalCost EXCEPT ![o] = 0]
    /\ selectedRental' = [selectedRental EXCEPT ![o] = NoRental]
    /\ totalPaid' = [totalPaid EXCEPT ![o] = 0]
    /\ cur' = [cur EXCEPT ![o] = NoCur]
    /\ toast' = [toast EXCEPT ![o] =
                    (IF okRentals THEN {} ELSE {MsgFetchRentalsFailed})
                    \cup (IF okCars THEN {} ELSE {MsgFetchCarsFailed})]
    /\ UNCHANGED <<db, pc>>

\* onSuccess = fetchRentals, awaited by nobody: the list is refreshed (or not)
FetchRentals(o, ok) ==
    /\ pc[o] = "refetch"
    /\ pc' = [pc EXCEPT ![o] = "idle"]
    /\ rentalsView' = [rentalsView EXCEPT ![o] = IF ok THEN rentals ELSE @]
    /\ cur' = [cur EXCEPT ![o] = NoCur]
    /\ toast' = [toast EXCEPT ![o] = IF ok THEN {} ELSE {MsgFetchRentalsFailed}]
    /\ UNCHANGED <<db, availableCars, form, totalCost, selectedRental, totalPaid>>

\* The operator fills the New Rental form and submits it: the total cost
\* effect, validation, RentalModal.onSubmit and rentalService.create's insert.
SubmitRental(o, customer_id, car_id, rental_date, expected_return_date, ok) ==
    /\ pc[o] = "idle"
    /\ Len(rentals) < MaxRentals
    /\ car_id \in DOMAIN availableCars[o] \cup {Unselected}
    /\ LET tc == TotalCostEffect(o, car_id, rental_date, expected_return_date)
           data == [customer_id |-> customer_id, car_id |-> car_id,
                    rental_date |-> rental_date,
                    expected_return_date |-> expected_return_date]
           arg == [customer_id |-> customer_id, car_id |-> car_id,
                   rental_date |-> rental_date,
                   expected_return_date |-> expected_return_date,
                   total_cost |-> tc]
           valid == /\ RentalSchemaOk(customer_id, car_id, rental_date, expected_return_date)
                    /\ RentalInputsOk(rental_date, expected_return_date)
       IN /\ form' = [form EXCEPT ![o] = data]
          /\ totalCost' = [totalCost EXCEPT ![o] = tc]
          /\ IF ~valid
             THEN /\ toast' = [toast EXCEPT ![o] = {}]
                  /\ cur' = [cur EXCEPT ![o] = Rejected]
                  /\ UNCHANGED <<db, pc>>
             ELSE IF ~ok
             THEN /\ toast' = [toast EXCEPT ![o] = {MsgRentalCreateFailed}]
                  /\ cur' = [cur EXCEPT ![o] = [NoCur EXCEPT !.arg = arg, !.err = {"rental"}]]
                  /\ UNCHANGED <<db, pc>>
             ELSE /\ rentals' = Append(rentals,
                         [rental_id |-> Len(rentals) + 1,
                          customer_id |-> customer_id, car_id |-> car_id,
                          rental_date |-> rental_date, return_date |-> NoDate,
                          total_cost |-> tc, status |-> "Ongoing"])
                  /\ pc' = [pc EXCEPT ![o] = "create_car"]
                  /\ cur' = [cur EXCEPT ![o] =
                         [NoCur EXCEPT !.rid = Len(rentals) + 1, !.car = car_id, !.arg = arg]]
                  /\ toast' = [toast EXCEPT ![o] = {}]
                  /\ UNCHANGED <<cars, payments>>
    /\ UNCHANGED <<rentalsView, availableCars, selectedRental, totalPaid>>

\* rentalService.create, "Update car status": the answer of the update is not
\* looked at; then RentalModal.onSubmit reports success and resets the form.
CreateUpdateCar(o, ok) ==
    /\ pc[o] = "create_car"
    /\ cars' = SetCarStatus(ok, cur[o].car, "Rented")
    /\ cur' = [cur EXCEPT ![o].err = IF ok THEN @ ELSE @ \cup {"car"}]
    /\ toast' = [toast EXCEPT ![o] = {MsgRentalCreated}]
    /\ pc' = [pc EXCEPT ![o] = "refetch"]
    /\ form' = [form EXCEPT ![o] = DefaultForm]
    /\ totalCost' = [totalCost EXCEPT ![o] = 0]
    /\ UNCHANGED <<rentals, payments, rentalsView, availableCars, selectedRental, totalPaid>>

\* .select('car_id').eq('rental_id', id).single(): the row, or null when the
\* query fails or finds no row
ReadRental(id, ok) == IF ok /\ id \in 1..Len(rentals) THEN rentals[id] ELSE NoRental

\* a cancel that goes on to its writes without looking at what it read
CancelCallUnchecked(o, id, ok) ==
    /\ pc[o] = "idle"
    /\ pc' = [pc EXCEPT ![o] = "cancel_rental"]
    /\ cur' = [cur EXCEPT ![o] = [NoCur EXCEPT !.rid = id, !.car = ReadRental(id, ok).car_id]]
    /\ toast' = [toast EXCEPT ![o] = {}]
    /\ UNCHANGED <<db, rentalsView, availableCars, form, totalCost, selectedRental, totalPaid>>

\* rentalService.cancel(id) up to "if (!rental) throw new Error('Rental not
\* found')"; the error is caught by handleCancel
CancelCall(o, id, ok) ==
    /\ pc[o] = "idle"
    /\ IF ReadRental(id, ok) # NoRental
       THEN /\ pc' = [pc EXCEPT ![o] = "cancel_rental"]
            /\ cur' = [cur EXCEPT ![o] =
                          [NoCur EXCEPT !.rid = id, !.car = ReadRental(id, ok).car_id]]
            /\ toast' = [toast EXCEPT ![o] = {}]
       ELSE /\ toast' = [toast EXCEPT ![o] = {MsgRentalCancelFailed}]
            /\ cur' = [cur EXCEPT ![o] = [NoCur EXCEPT !.rid = id, !.err = {RentalNotFound}]]
            /\ UNCHANGED pc
    /\ UNCHANGED <<db, rentalsView, availableCars, form, totalCost, selectedRental, totalPaid>>

\* Rentals.handleCancel (confirmed) on a row of the list
CancelRead(o, id, ok) ==
    /\ id \in OngoingInView(o)
    /\ CancelCall(o, id, ok)

\* rentalService.complete(id, returnDate) up to "if (!rental) throw new
\* Error('Rental not found')"
CompleteCall(o, id, returnDate, ok) ==
    /\ pc[o] = "idle"
    /\ IF ReadRental(id, ok) # NoRental
       THEN /\ pc' = [pc EXCEPT ![o] = "complete_rental"]
            /\ cur' = [cur EXCEPT ![o] =
                          [NoCur EXCEPT !.rid = id, !.car = ReadRental(id, ok).car_id,
                                        !.returnDate = returnDate]]
       ELSE /\ cur' = [cur EXCEPT ![o] = [NoCur EXCEPT !.rid = id, !.err = {RentalNotFound}]]
            /\ UNCHANGED pc
    /\ toast' = [toast EXCEPT ![o] = {}]
    /\ UNCHANGED <<db, rentalsView, availableCars, form, totalCost, selectedRental, totalPaid>>

\* a complete that writes the return date into rental_date
CompleteUpdateRentalDate(o, ok) ==
    /\ pc[o] = "complete_rental"
    /\ IF ok
       THEN /\ rentals' = [rentals EXCEPT ![cur[o].rid].status = "Completed",
                                          ![cur[o].rid].rental_date = cur[o].returnDate]
            /\ pc' = [pc EXCEPT ![o] = "complete_car"]
            /\ UNCHANGED cur
       ELSE /\ pc' = [pc EXCEPT ![o] = "idle"]
            /\ cur' = [cur EXCEPT ![o].err = {"rental"}]
            /\ UNCHANGED rentals
    /\ UNCHANGED <<cars, payments, rentalsView, availableCars, form, totalCost,
                   selectedRental, totalPaid, toast>>

\* rentalService.complete: update({status: 'Completed', return_date}); an
\* error is thrown
CompleteUpdateRental(o, ok) ==
    /\ pc[o] = "complete_rental"
    /\ IF ok
       THEN /\ rentals' = [rentals EXCEPT ![cur[o].rid].status = "Completed",
                                          ![cur[o].rid].return_date = cur[o].returnDate]
            /\ pc' = [pc EXCEPT ![o] = "complete_car"]
            /\ UNCHANGED cur
       ELSE /\ pc' = [pc EXCEPT ![o] = "idle"]
            /\ cur' = [cur EXCEPT ![o].err = {"rental"}]
            /\ UNCHANGED rentals
    /\ UNCHANGED <<cars, payments, rentalsView, availableCars, form, totalCost,
                   selectedRental, totalPaid, toast>>

\* rentalService.complete, "Update car status": the answer is not looked at
CompleteUpdateCar(o, ok) ==
    /\ pc[o] = "complete_car"
    /\ cars' = SetCarStatus(ok, cur[o].car, "Available")
    /\ cur' = [cur EXCEPT ![o].err = IF ok THEN @ ELSE @ \cup {"car"}]
    /\ pc' = [pc EXCEPT ![o] = "idle"]
    /\ UNCHANGED <<rentals, payments, rentalsView, availableCars, form, totalCost,
                   selectedRental, totalPaid, toast>>

\* a cancel that also stamps the return date, as rentalService.complete does
CancelUpdateRentalStamping(o, ok) ==
    /\ pc[o] = "cancel_rental"
    /\ IF ok
       THEN /\ rentals' = [rentals EXCEPT ![cur[o].rid].status = "Cancelled",
                                          ![cur[o].rid].return_date = Today]
            /\ pc' = [pc EXCEPT ![o] = "cancel_car"]
            /\ UNCHANGED <<cur, toast>>
       ELSE /\ toast' = [toast EXCEPT ![o] = {MsgRentalCancelFailed}]
            /\ pc' = [pc EXCEPT ![o] = "idle"]
            /\ cur' = [cur EXCEPT ![o].err = {"rental"}]
            /\ UNCHANGED rentals
    /\ UNCHANGED <<cars, payments, rentalsView, availableCars, form, totalCost,
                   selectedRental, totalPaid>>

\* rentalService.cancel: update({status: 'Cancelled'}); an error is thrown
CancelUpdateRental(o, ok) ==
    /\ pc[o] = "cancel_rental"
    /\ IF ok
       THEN /\ rentals' = [rentals EXCEPT ![cur[o].rid].status = "Cancelled"]
            /\ pc' = [pc EXCEPT ![o] = "cancel_car"]
            /\ UNCHANGED <<cur, toast>>
       ELSE /\ toast' = [toast EXCEPT ![o] = {MsgRentalCancelFailed}]
            /\ pc' = [pc EXCEPT ![o] = "idle"]
            /\ cur' = [cur EXCEPT ![o].err = {"rental"}]
            /\ UNCHANGED rentals
    /\ UNCHANGED <<cars, payments, rentalsView, availableCars, form, totalCost,
                   selectedRental, totalPaid>>

\* rentalService.cancel, "Update car status": the answer is not looked at;
\* then handleCancel reports success and fetches the rentals again.
CancelUpdateCar(o, ok) ==
    /\ pc[o] = "cancel_car"
    /\ cars' = SetCarStatus(ok, cur[o].car, "Available")
    /\ cur' = [cur EXCEPT ![o].err = IF ok THEN @ ELSE @ \cup {"car"}]
    /\ toast' = [toast EXCEPT ![o] = {MsgRentalCancelled}]
    /\ pc' = [pc EXCEPT ![o] = "refetch"]
    /\ UNCHANGED <<rentals, payments, rentalsView, availableCars, form, totalCost,
                   selectedRental, totalPaid>>

\* Rentals.handleComplete opens the PaymentModal on a row of the list, and
\* the modal's effect runs fetchPreviousPayments.
OpenPayment(o, id, ok) ==
    /\ pc[o] = "idle"
    /\ id \in OngoingInView(o)
    /\ selectedRental' = [selectedRental EXCEPT ![o] = rentalsView[o][id]]
    /\ totalPaid' = [totalPaid EXCEPT ![o] =
                        IF ok THEN SumAmounts(PaymentsOf(rentalsView[o][id].rental_id)) ELSE @]
    /\ toast' = [toast EXCEPT ![o] = IF ok THEN {} ELSE {MsgFetchPaymentsFailed}]
    /\ cur' = [cur EXCEPT ![o] = NoCur]
    /\ pc' = [pc EXCEPT ![o] = "pay_form"]
    /\ UNCHANGED <<db, rentalsView, availableCars, form, totalCost>>

\* PaymentModal.handleClose through the Cancel button
ClosePayment(o) ==
    /\ pc[o] = "pay_form"
    /\ pc' = [pc EXCEPT ![o] = "idle"]
    /\ selectedRental' = [selectedRental EXCEPT ![o] = NoRental]
    /\ cur' = [cur EXCEPT ![o] = NoCur]
    /\ toast' = [toast EXCEPT ![o] = {}]
    /\ UNCHANGED <<db, rentalsView, availableCars, form, totalCost, totalPaid>>

\* a payment submission that goes on to the two updates whatever the
\* payment insert answers
SubmitPaymentAnyway(o, amount, ok) ==
    /\ pc[o] = "pay_form"
    /\ Len(payments) < MaxPayments
    /\ PaymentSchemaOk(amount) /\ PaymentInputOk(o, amount)
    /\ payments' = IF ok
                   THEN Append(payments, [rental_id |-> selectedRental[o].rental_id,
                                          amount |-> amount, status |-> "Paid"])
                   ELSE payments
    /\ pc' = [pc EXCEPT ![o] = "pay_updates"]
    /\ cur' = [cur EXCEPT ![o] =
                  [NoCur EXCEPT !.rid = selectedRental[o].rental_id,
                                !.car = selectedRental[o].car_id,
                                !.newTotalPaid = totalPaid[o] + amount,
                                !.pend = {"rental", "car"}]]
    /\ toast' = [toast EXCEPT ![o] = {}]
    /\ UNCHANGED <<cars, rentals, selectedRental, rentalsView, availableCars, form,
                   totalCost, totalPaid>>

\* The operator enters an amount and submits the payment form: validation,
\* PaymentModal.onSubmit up to the answer of the payment insert.
SubmitPayment(o, amount, ok) ==
    /\ pc[o] = "pay_form"
    /\ Len(payments) < MaxPayments
    /\ LET rental == selectedRental[o]
           newTotalPaid == totalPaid[o] + amount
           valid == PaymentSchemaOk(amount) /\ PaymentInputOk(o, amount)
           locals == [NoCur EXCEPT !.rid = rental.rental_id, !.car = rental.car_id,
                                   !.newTotalPaid = newTotalPaid]
       IN IF ~valid
          THEN /\ toast' = [toast EXCEPT ![o] = {}]
               /\ cur' = [cur EXCEPT ![o] = Rejected]
               /\ UNCHANGED <<db, pc, selectedRental>>
          ELSE IF ~ok
          THEN /\ toast' = [toast EXCEPT ![o] = {MsgPaymentFailed}]
               /\ cur' = [cur EXCEPT ![o] = [NoCur EXCEPT !.err = {"payment"}]]
               /\ UNCHANGED <<db, pc, selectedRental>>
          ELSE /\ payments' = Append(payments,
                      [rental_id |-> rental.rental_id, amount |-> amount, status |-> "Paid"])
               /\ IF IsComplete(newTotalPaid, rental.total_cost)
                  THEN /\ pc' = [pc EXCEPT ![o] = "pay_updates"]
                       /\ cur' = [cur EXCEPT ![o] = [locals EXCEPT !.pend = {"rental", "car"}]]
                       /\ toast' = [toast EXCEPT ![o] = {}]
                       /\ UNCHANGED selectedRental
                  ELSE /\ pc' = [pc EXCEPT ![o] = "refetch"]
                       /\ cur' = [cur EXCEPT ![o] = locals]
                       /\ toast' = [toast EXCEPT ![o] =
                              {MsgPartialPayment(rental.total_cost - newTotalPaid)}]
                       /\ selectedRental' = [selectedRental EXCEPT ![o] = NoRental]
               /\ UNCHANGED <<cars, rentals>>
    /\ UNCHANGED <<rentalsView, availableCars, form, totalCost, totalPaid>>

\* What follows the Promise.all once both updates have answered:
\* if (rentalError?.error) throw ...; if (carError?.error) throw ...
PaymentSettled(o, err) ==
    IF err # {}
    THEN /\ toast' = [toast EXCEPT ![o] = {MsgPaymentFailed}]
         /\ pc' = [pc EXCEPT ![o] = "pay_form"]
         /\ UNCHANGED selectedRental
    ELSE /\ toast' = [toast EXCEPT ![o] = {MsgFullPayment}]
         /\ pc' = [pc EXCEPT ![o] = "refetch"]
         /\ selectedRental' = [selectedRental EXCEPT ![o] = NoRental]

\* One of the two concurrent updates of a full payment reaches the database
PayUpdate(o, which, ok) ==
    /\ pc[o] = "pay_updates"
    /\ which \in cur[o].pend
    /\ IF which = "rental"
       THEN /\ rentals' = IF ok /\ cur[o].rid \in 1..Len(rentals)
                          THEN [rentals EXCEPT ![cur[o].rid].status = "Completed",
                                               ![cur[o].rid].return_date = Today]
                          ELSE rentals
            /\ UNCHANGED cars
       ELSE /\ cars' = SetCarStatus(ok, cur[o].car, "Available")
            /\ UNCHANGED rentals
    /\ LET err == IF ok THEN cur[o].err ELSE cur[o].err \cup {which}
           pend == cur[o].pend \ {which}
       IN /\ cur' = [cur EXCEPT ![o].pend = pend, ![o].err = err]
          /\ IF pend = {}
             THEN PaymentSettled(o, err)
             ELSE UNCHANGED <<pc, toast, selectedRental>>
    /\ UNCHANGED <<payments, rentalsView, availableCars, form, totalCost, totalPaid>>

\* Every step one session can take
Step(o) ==
    \/ \E okRentals \in BOOLEAN, okCars \in BOOLEAN : Mount(o, okRentals, okCars)
    \/ \E ok \in BOOLEAN : FetchRentals(o, ok)
    \/ \E customer_id \in CustomerIds \cup {Unselected},
          car_id \in CarIds \cup {Unselected},
          rental_date \in RentalDates, expected_return_date \in ReturnDates,
          ok \in BOOLEAN :
            SubmitRental(o, customer_id, car_id, rental_date, expected_return_date, ok)
    \/ \E ok \in BOOLEAN : CreateUpdateCar(o, ok)
    \/ \E id \in 1..MaxRentals, ok \in BOOLEAN : CancelRead(o, id, ok)
    \/ \E ok \in BOOLEAN : CancelUpdateRental(o, ok)
    \/ \E ok \in BOOLEAN : CancelUpdateCar(o, ok)
    \/ \E id \in 1..MaxRentals, ok \in BOOLEAN : OpenPayment(o, id, ok)
    \/ ClosePayment(o)
    \/ \E amount \in AmountInputs, ok \in BOOLEAN : SubmitPayment(o, amount, ok)
    \/ \E which \in {"rental", "car"}, ok \in BOOLEAN : PayUpdate(o, which, ok)

\* The operator goes to the Cars page (the Rentals page unmounts, its state
\* is gone) and submits the car form: CarModal.onSubmit with carService.create
\* for the Add Car form, carService.update for the Edit form of car.
SubmitCar(o, car, filled, status, daily_rate, ok) ==
    /\ pc[o] = "idle"
    /\ car \in DOMAIN cars \cup {NoCar}
    /\ car = NoCar => Cardinality(DOMAIN cars) < MaxCars
    /\ LET row == [status |-> status, daily_rate |-> daily_rate]
           valid == CarSchemaOk(filled, status, daily_rate)
       IN IF ~valid
          THEN /\ toast' = [toast EXCEPT ![o] = {}]
               /\ cur' = [cur EXCEPT ![o] = Rejected]
               /\ UNCHANGED cars
          ELSE IF ~ok
          THEN /\ toast' = [toast EXCEPT ![o] =
                       {IF car = NoCar THEN MsgCarCreateFailed ELSE MsgCarUpdateFailed}]
               /\ cur' = [cur EXCEPT ![o] = NoCur]
               /\ UNCHANGED cars
          ELSE /\ cars' = IF car = NoCar
                          THEN cars @@ (Cardinality(DOMAIN cars) + 1 :> row)
                          ELSE [cars EXCEPT ![car] = row]
               /\ toast' = [toast EXCEPT ![o] =
                       {IF car = NoCar THEN MsgCarCreated ELSE MsgCarUpdated}]
               /\ cur' = [cur EXCEPT ![o] = NoCur]
    /\ rentalsView' = [rentalsView EXCEPT ![o] = <<>>]
    /\ availableCars' = [availableCars EXCEPT ![o] = <<>>]
    /\ form' = [form EXCEPT ![o] = DefaultForm]
    /\ totalCost' = [totalCost EXCEPT ![o] = 0]
    /\ selectedRental' = [selectedRental EXCEPT ![o] = NoRental]
    /\ totalPaid' = [totalPaid EXCEPT ![o] = 0]
    /\ UNCHANGED <<rentals, payments, pc>>

\* One operator's session: the interaction model the design states
Next == (\E o \in Sessions : Step(o)) /\ UNCHANGED <<stats, auth>>

Spec == Init /\ [][Next]_vars

\* --------------------------------------------------------- Reports page
\* The reports are functions of the rows of the rentals table, whatever wrote
\* them.  The table starts empty or with SampleRentals, and rows are added.
ReportCars == [c \in 1..(TopN + 1) |-> [status |-> "Available", daily_rate |-> 50]]

RentalRow(id, customer_id, car_id, rental_date, total_cost, status) ==
    [rental_id |-> id, customer_id |-> customer_id, car_id |-> car_id,
     rental_date |-> rental_date, return_date |-> NoDate,
     total_cost |-> total_cost, status |-> status]

SampleRentals ==
    << RentalRow(1, 5, 5, Today, 100, "Completed"),
       RentalRow(2, 4, 4, Today, 200, "Completed"),
       RentalRow(3, 3, 3, Today, 500, "Cancelled"),
       RentalRow(4, 3, 3, Today, 100, "Ongoing"),
       RentalRow(5, 2, 2, Today, 100, "Ongoing"),
       RentalRow(6, 1, 1, Today, 100, "Ongoing") >>

\* the timeframe select, in days: startDate = subDays(new Date(), timeframe)
Timeframes == {7, 30}
\* date and status of an added row: each status on the day of the 7-day
\* cutoff, and a Completed rental the day before it
RowKinds == {<<Today - 7, "Ongoing">>, <<Today - 7, "Completed">>,
             <<Today - 7, "Cancelled">>, <<Today - 8, "Completed">>}
RowCosts == {100, 500}
RowKeys == {1, TopN + 1}

InitReports ==
    /\ cars = ReportCars
    /\ rentals \in {<<>>, SampleRentals}
    /\ payments = <<>>
    /\ pc = [o \in Operators |-> "idle"]
    /\ rentalsView = [o \in Operators |-> <<>>]
    /\ availableCars = [o \in Operators |-> <<>>]
    /\ form = [o \in Operators |-> DefaultForm]
    /\ totalCost = [o \in Operators |-> 0]
    /\ selectedRental = [o \in Operators |-> NoRental]
    /\ totalPaid = [o \in Operators |-> 0]
    /\ cur = [o \in Operators |-> NoCur]
    /\ toast = [o \in Operators |-> {}]
    /\ stats = [o \in Operators |-> NoStats]
    /\ auth = [o \in Operators |-> SignedIn]

\* A rental row reaches the table while session o is away from the Reports
\* page (the page unmounts, its stats are gone).
InsertRental(o, customer_id, car_id, rental_date, total_cost, status) ==
    /\ pc[o] = "idle"
    /\ \/ Len(rentals) < MaxExtraRows
       \/ /\ Len(rentals) >= Len(SampleRentals)
          /\ Len(rentals) < Len(SampleRentals) + MaxExtraRows
    /\ rentals' = Append(rentals, RentalRow(Len(rentals) + 1, customer_id, car_id,
                                            rental_date, total_cost, status))
    /\ stats' = [stats EXCEPT ![o] = NoStats]
    /\ toast' = [toast EXCEPT ![o] = {}]
    /\ UNCHANGED <<cars, payments, pc, rentalsView, availableCars, form, totalCost,
                   selectedRental, totalPaid, cur>>

\* Reports.fetchStats for the chosen timeframe
FetchStats(o, timeframe, ok) ==
    /\ pc[o] = "idle"
    /\ LET startDate == Today - timeframe
       IN stats' = [stats EXCEPT ![o] =
                     IF ok
                     THEN [startDate |-> startDate,
                           totalRevenue |-> getRevenue(startDate),
                           topCars |-> getTopCars(startDate),
                           topCustomers |-> getTopCustomers(startDate)]
                     ELSE @]
    /\ toast' = [toast EXCEPT ![o] = IF ok THEN {} ELSE {MsgFetchStatsFailed}]
    /\ UNCHANGED <<db, pc, rentalsView, availableCars, form, totalCost,
                   selectedRental, totalPaid, cur>>

ReportsStep(o) ==
    \/ \E customer_id \in RowKeys, car_id \in RowKeys, kind \in RowKinds,
          total_cost \in RowCosts :
            InsertRental(o, customer_id, car_id, kind[1], total_cost, kind[2])
    \/ \E timeframe \in Timeframes, ok \in BOOLEAN : FetchStats(o, timeframe, ok)

NextReports == (\E o \in Sessions : ReportsStep(o)) /\ UNCHANGED auth

SpecReports == InitReports /\ [][NextReports]_vars

\* Two operators, each with the Rentals page open, running the rental
\* creation flow against the shared database
CreationStep(o) ==
    \/ \E okRentals \in BOOLEAN, okCars \in BOOLEAN : Mount(o, okRentals, okCars)
    \/ \E ok \in BOOLEAN : FetchRentals(o, ok)
    \/ \E customer_id \in CustomerIds \cup {Unselected},
          car_id \in CarIds \cup {Unselected},
          rental_date \in RentalDates, expected_return_date \in ReturnDates,
          ok \in BOOLEAN :
            SubmitRental(o, customer_id, car_id, rental_date, expected_return_date, ok)
    \/ \E ok \in BOOLEAN : CreateUpdateCar(o, ok)

\* One operator who manages the cars and creates rentals
FleetStep(o) ==
    \/ \E okRentals \in BOOLEAN, okCars \in BOOLEAN : Mount(o, okRentals, okCars)
    \/ \E ok \in BOOLEAN : FetchRentals(o, ok)
    \/ \E car_id \in 1..MaxCars, expected_return_date \in {Today, Today + MaxDays},
          ok \in BOOLEAN :
            \E customer_id \in CustomerIds :
                SubmitRental(o, customer_id, car_id, Today, expected_return_date, ok)
    \/ \E ok \in BOOLEAN : CreateUpdateCar(o, ok)
    \/ \E car \in (1..MaxCars) \cup {NoCar}, filled \in BOOLEAN, status \in CarStatuses,
          daily_rate \in DailyRateInputs, ok \in BOOLEAN :
            SubmitCar(o, car, filled, status, daily_rate, ok)

NextFleet == (\E o \in Sessions : FleetStep(o)) /\ UNCHANGED <<stats, auth>>

SpecFleet == Init /\ [][NextFleet]_vars

\* One operator who uses the three forms: New Rental, Process Payment, and
\* the car form
FormsStep(o) ==
    \/ \E okRentals \in BOOLEAN : Mount(o, okRentals, TRUE)
    \/ FetchRentals(o, TRUE)
    \/ \E customer_id \in CustomerIds \cup {Unselected},
          car_id \in CarIds \cup {Unselected},
          expected_return_date \in {NoDate, Today - 1, Today + MaxDays}, ok \in BOOLEAN :
            SubmitRental(o, customer_id, car_id, Today, expected_return_date, ok)
    \/ CreateUpdateCar(o, TRUE)
    \/ \E id \in 1..MaxRentals : OpenPayment(o, id, TRUE)
    \/ ClosePayment(o)
    \/ \E amount \in AmountInputs, ok \in BOOLEAN : SubmitPayment(o, amount, ok)
    \/ \E which \in {"rental", "car"} : PayUpdate(o, which, TRUE)
    \/ \E car \in CarIds \cup {NoCar}, filled \in BOOLEAN, status \in CarStatuses,
          daily_rate \in DailyRateInputs, ok \in BOOLEAN :
            SubmitCar(o, car, filled, status, daily_rate, ok)

NextForms == (\E o \in Sessions : FormsStep(o)) /\ UNCHANGED <<stats, auth>>

SpecForms == Init /\ [][NextForms]_vars

\* ------------------------------------------------- sessions and routes
MsgLoggedOut == Notice("Logged out successfully")
MsgLogoutFailed == Notice("Failed to logout")

\* The browser loads the application at path: all JavaScript state is new
PageLoad(o, path) ==
    /\ auth' = [auth EXCEPT ![o] = LoadPage(path)]
    /\ toast' = [toast EXCEPT ![o] = {}]

\* A getCurrentUser call of initialize settles; the store is set, whatever
\* page shows by now
InitializeSettle(o, answer) ==
    /\ auth[o].pending > 0
    /\ auth' = [auth EXCEPT ![o] =
                   Commit([Initialize(auth[o], answer) EXCEPT !.pending = @ - 1,
                                                              !.answer = answer])]
    /\ UNCHANGED toast

\* where the Login page goes after a sign-in
LoginTarget == "/dashboard"

\* The Login page: useAuthStore.signIn succeeds and the page goes on to the
\* dashboard, where ProtectedRoute mounts and calls initialize.  (A rejected
\* auth.signIn leaves the store as it is.)
SignIn(o) ==
    /\ auth[o].location = LoginPath
    /\ auth[o].pending < MaxPending
    /\ auth' = [auth EXCEPT ![o] =
                   Commit([@ EXCEPT !.user = TheUser, !.location = LoginTarget,
                                    !.pending = @ + 1])]
    /\ toast' = [toast EXCEPT ![o] = {}]

\* Layout.handleLogout calls useAuthStore.signOut
SignOutCall(o) ==
    /\ auth[o].screen = "content"
    /\ ~auth[o].signingOut
    /\ auth' = [auth EXCEPT ![o].signingOut = TRUE]
    /\ toast' = [toast EXCEPT ![o] = {}]

\* auth.signOut settles: set({user: null}), then navigate('/login'); a
\* rejection is caught by handleLogout
SignOutSettle(o, ok) ==
    /\ auth[o].signingOut
    /\ IF ok
       THEN /\ auth' = [auth EXCEPT ![o] =
                          [Commit([@ EXCEPT !.user = NoUser])
                              EXCEPT !.location = LoginPath, !.screen = "login",
                                     !.signingOut = FALSE]]
            /\ toast' = [toast EXCEPT ![o] = {MsgLoggedOut}]
       ELSE /\ auth' = [auth EXCEPT ![o].signingOut = FALSE]
            /\ toast' = [toast EXCEPT ![o] = {MsgLogoutFailed}]

\* The router goes to path without a page load (a NavLink, back, forward):
\* coming from /login, ProtectedRoute mounts and calls initialize
GoTo(o, path) ==
    /\ path # auth[o].location
    /\ (auth[o].location = LoginPath) => auth[o].pending < MaxPending
    /\ auth' = [auth EXCEPT ![o] =
                   Commit([@ EXCEPT !.location = path,
                                    !.pending = IF auth[o].location = LoginPath
                                                THEN @ + 1 ELSE @])]
    /\ toast' = [toast EXCEPT ![o] = {}]

AuthStep(o) ==
    \/ \E path \in Paths : PageLoad(o, path)
    \/ \E answer \in Answers : InitializeSettle(o, answer)
    \/ SignIn(o)
    \/ SignOutCall(o)
    \/ \E ok \in BOOLEAN : SignOutSettle(o, ok)
    \/ \E path \in Paths : GoTo(o, path)

\* the auth store and the router leave the pages' state and the tables alone
AuthFrame ==
    UNCHANGED <<db, pc, rentalsView, availableCars, form, totalCost, selectedRental,
                totalPaid, cur, stats>>

NextAuth == (\E o \in Sessions : AuthStep(o)) /\ AuthFrame

\* the browser has just loaded the application at some path
InitAuth ==
    /\ cars = InitialCars
    /\ rentals = <<>>
    /\ payments = <<>>
    /\ pc = [o \in Operators |-> "idle"]
    /\ rentalsView = [o \in Operators |-> <<>>]
    /\ availableCars = [o \in Operators |-> <<>>]
    /\ form = [o \in Operators |-> DefaultForm]
    /\ totalCost = [o \in Operators |-> 0]
    /\ selectedRental = [o \in Operators |-> NoRental]
    /\ totalPaid = [o \in Operators |-> 0]
    /\ cur = [o \in Operators |-> NoCur]
    /\ toast = [o \in Operators |-> {}]
    /\ stats = [o \in Operators |-> NoStats]
    /\ \E path \in Paths : auth = [o \in Operators |-> LoadPage(path)]

\* every promise of getCurrentUser settles
SpecAuth ==
    /\ InitAuth
    /\ [][NextAuth]_vars
    /\ \A o \in Sessions :
          WF_vars((\E answer \in Answers : InitializeSettle(o, answer)) /\ AuthFrame)

\* The lifecycle flows: creation and payment through their forms, and
\* rentalService.cancel and rentalService.complete called with any id
ServiceIds == 1..(MaxRentals + 1)

ServiceStep(o) ==
    \/ Mount(o, TRUE, TRUE)
    \/ FetchRentals(o, TRUE)
    \/ \E customer_id \in CustomerIds, car_id \in CarIds :
            SubmitRental(o, customer_id, car_id, Today, Today + MaxDays, TRUE)
    \/ CreateUpdateCar(o, TRUE)
    \/ \E id \in ServiceIds, ok \in BOOLEAN : CancelCall(o, id, ok)
    \/ \E ok \in BOOLEAN : CancelUpdateRental(o, ok)
    \/ CancelUpdateCar(o, TRUE)
    \/ \E id \in ServiceIds, ok \in BOOLEAN : CompleteCall(o, id, Today + 1, ok)
    \/ \E ok \in BOOLEAN : CompleteUpdateRental(o, ok)
    \/ CompleteUpdateCar(o, TRUE)
    \/ \E id \in 1..MaxRentals : OpenPayment(o, id, TRUE)
    \/ ClosePayment(o)
    \/ \E amount \in {0, 60, 90} : SubmitPayment(o, amount, TRUE)
    \/ \E which \in {"rental", "car"} : PayUpdate(o, which, TRUE)

NextService == (\E o \in Sessions : ServiceStep(o)) /\ UNCHANGED <<stats, auth>>

SpecService == Init /\ [][NextService]_vars

NextRace == (\E o \in Operators : CreationStep(o)) /\ UNCHANGED <<stats, auth>>

SpecRace == Init /\ [][NextRace]_vars

\* =================================================================== claims

\* the Ongoing rentals that reference car c
OngoingRentalsOf(c) ==
    {i \in 1..Len(rentals) : rentals[i].car_id = c /\ rentals[i].status = "Ongoing"}

\* C1: every car is referenced by at most one rental whose status is Ongoing.
C1_AtMostOneOngoingPerCar ==
    \A c \in CarIds : Cardinality(OngoingRentalsOf(c)) <= 1

\* the latest handler of session o reported a processed payment
PaymentReported(o) ==
    \E n \in toast[o] : n = MsgFullPayment \/ n.text = MsgPartialPayment(0).text

\* C2: after every successful payment submission, the payments of every
\* rental sum to at most the rental's total_cost.
C2_PaymentsWithinTotalCost ==
    \A o \in Operators :
        PaymentReported(o) =>
            \A i \in 1..Len(rentals) : SumAmounts(PaymentsOf(i)) <= rentals[i].total_cost

\* C3: when rentalService.cancel has returned without error (handleCancel
\* reports the cancellation), the rental's car has status Available.
C3_CancelFreesCar ==
    \A o \in Operators :
        (pc[o] = "refetch" /\ MsgRentalCancelled \in toast[o])
            => cars[cur[o].car].status = "Available"

\* what the design states for the total cost: one daily rate for a span of
\* one day or less, the span times the daily rate otherwise
ExpectedTotalCost(daily_rate, rental_date, expected_return_date) ==
    IF expected_return_date - rental_date <= 1
    THEN daily_rate
    ELSE (expected_return_date - rental_date) * daily_rate

PaymentDone(o) == pc[o] = "refetch" /\ cur[o].newTotalPaid > 0

\* C5: after a payment submission whose new running total (the prior
\* payments of the rental plus the amount) reaches the rental's total_cost,
\* the rental is Completed with return_date = today, its car is Available,
\* and the full-payment message is reported.
C5_FullPayment ==
    \A o \in Operators :
        (PaymentDone(o)
         /\ SumAmounts(PaymentsOf(cur[o].rid)) >= rentals[cur[o].rid].total_cost)
            => /\ toast[o] = {MsgFullPayment}
               /\ rentals[cur[o].rid].status = "Completed"
               /\ rentals[cur[o].rid].return_date = Today
               /\ cars[cur[o].car].status = "Available"

\* C6: after a payment submission whose new running total (the prior
\* payments of the rental plus the amount) stays below the rental's
\* total_cost, the payment is stored, the rental has not been completed, and
\* the partial-payment message shows total_cost minus the new running total.
C6_PartialPayment ==
    \A o \in Operators :
        (PaymentDone(o)
         /\ SumAmounts(PaymentsOf(cur[o].rid)) < rentals[cur[o].rid].total_cost)
            => /\ PaymentsOf(cur[o].rid) # <<>>
               /\ rentals[cur[o].rid].status # "Completed"
               /\ toast[o] = {MsgPartialPayment(rentals[cur[o].rid].total_cost
                                                - SumAmounts(PaymentsOf(cur[o].rid)))}

\* C7: a rental creation against an Available car that reports success
\* leaves the rental Ongoing and the car Rented.
C7_CreateRentsCar ==
    [][\A o \in Operators :
        (/\ pc[o] = "create_car"
         /\ cars[cur[o].car].status = "Available"
         /\ pc'[o] = "refetch"
         /\ MsgRentalCreated \in toast'[o])
            => /\ rentals'[cur[o].rid].status = "Ongoing"
               /\ cars'[cur[o].car].status = "Rented"]_vars

\* C8: when one of the two writes of a rental creation has failed, the
\* creation reports an error and not success.
C8_CreateFailureSurfaced ==
    \A o \in Operators :
        (pc[o] \in {"idle", "refetch"} /\ cur[o].arg # NoArg /\ cur[o].err # {})
            => /\ MsgRentalCreateFailed \in toast[o]
               /\ MsgRentalCreated \notin toast[o]

\* C9: no compensating action.  When the car update of a rental creation
\* fails, the inserted rental stays stored as Ongoing and no table changes;
\* when an update of a full payment fails, the inserted payment stays stored.
C9_NoCompensation ==
    [][\A o \in Operators :
        /\ (pc[o] = "create_car" /\ pc'[o] = "refetch" /\ "car" \in cur'[o].err)
              => /\ cars' = cars
                 /\ rentals' = rentals
                 /\ payments' = payments
                 /\ rentals'[cur[o].rid].status = "Ongoing"
        /\ (pc[o] = "pay_updates" /\ cur'[o].err # cur[o].err)
              => /\ payments' = payments
                 /\ \E i \in 1..Len(payments') :
                        payments'[i] = [rental_id |-> cur[o].rid,
                                        amount |-> cur[o].newTotalPaid - totalPaid[o],
                                        status |-> "Paid"]
                 /\ ("rental" \in cur'[o].err \ cur[o].err) => rentals' = rentals
                 /\ ("car" \in cur'[o].err \ cur[o].err) => cars' = cars]_vars

\* C9 witness: a creation has ended with its car update failed: the rental
\* is stored, Ongoing, and the car is still Available
C9_Witness ==
    \E o \in Operators :
        /\ pc[o] = "refetch"
        /\ cur[o].arg # NoArg
        /\ "car" \in cur[o].err
        /\ rentals[cur[o].rid].status = "Ongoing"
        /\ cars[cur[o].car].status = "Available"

\* what was paid for the rental of payment i before payment i was inserted
PaidBefore(i) ==
    SumAmounts(SelectSeq(SubSeq(payments, 1, i - 1),
                         LAMBDA p : p.rental_id = payments[i].rental_id))

\* C10: no payment record is inserted whose amount is not greater than 0 or
\* is greater than the rental's total_cost minus its prior payments.
C10_InvalidAmountRejected ==
    \A i \in 1..Len(payments) :
        /\ payments[i].amount > 0
        /\ payments[i].amount <= rentals[payments[i].rental_id].total_cost - PaidBefore(i)

\* session o has ended a rental creation whose two writes both succeeded
CreationSucceeded(o) ==
    /\ pc[o] = "refetch"
    /\ cur[o].arg # NoArg
    /\ cur[o].err = {}
    /\ MsgRentalCreated \in toast[o]

\* C11: with two operators running the creation flow concurrently, two
\* creations against the same car both succeed: whenever both operators have
\* ended a creation against one car without any error, both rentals are
\* stored as Ongoing on that car, which is Rented.
C11_ConcurrentCreations ==
    \A o1 \in Operators, o2 \in Operators :
        (/\ o1 # o2
         /\ CreationSucceeded(o1)
         /\ CreationSucceeded(o2)
         /\ cur[o1].car = cur[o2].car)
            => /\ cur[o1].rid # cur[o2].rid
               /\ {cur[o1].rid, cur[o2].rid} \subseteq OngoingRentalsOf(cur[o1].car)
               /\ cars[cur[o1].car].status = "Rented"

\* C11 witness: both operators have created a rental on car 1 with success
C11_Witness ==
    /\ CreationSucceeded("op1")
    /\ CreationSucceeded("op2")
    /\ cur["op1"].car = cur["op2"].car
    /\ Cardinality(OngoingRentalsOf(cur["op1"].car)) = 2

\* a step of one of the rental lifecycle operations that write a car:
\* creation, cancellation, full payment
LifecycleCarWrite ==
    \E o \in Operators : pc[o] \in {"create_car", "cancel_car", "pay_updates"}

\* C12: the status of a car that an Ongoing rental references is changed
\* only by a step of the rental lifecycle operations, never by a user edit
\* of the car.
C12_StatusOnlyByLifecycle ==
    [][\A c \in DOMAIN cars :
        (OngoingRentalsOf(c) # {} /\ cars'[c].status # cars[c].status)
            => LifecycleCarWrite]_vars

\* C13: every car record is created with status Available.
C13_CreatedAvailable ==
    [][\A c \in DOMAIN cars' \ DOMAIN cars : cars'[c].status = "Available"]_vars

\* C14: every rental created through the creation flow references a car
\* whose status is Available at the moment the rental record is inserted.
C14_InsertOnAvailableCar ==
    [][\A i \in (1..Len(rentals')) \ (1..Len(rentals)) :
        cars[rentals'[i].car_id].status = "Available"]_vars

\* C15: payment submission moves a rental to Completed only when the
\* payment records stored for that rental, the new one included, sum to at
\* least the rental's total_cost.
C15_CompletedOnlyWhenPaid ==
    [][\A i \in 1..Len(rentals) :
        (/\ \E o \in Operators : pc[o] = "pay_updates" /\ cur[o].rid = i
         /\ rentals[i].status # "Completed"
         /\ rentals'[i].status = "Completed")
            => SumAmounts(PaymentsOf(i)) >= rentals[i].total_cost]_vars

\* the payment record that the running submission of session o inserted
InsertedPayment(o) ==
    [rental_id |-> cur[o].rid, amount |-> cur[o].newTotalPaid - totalPaid[o],
     status |-> "Paid"]

\* C16: in payment submission the rental and the car are written only after
\* the payment record was inserted; when the payment insert fails, no table
\* changes (the rental's status and return_date and the car's status stay)
\* and 'Failed to process payment' is reported.
C16_UpdatesAfterInsert ==
    [][\A o \in Operators :
        /\ (pc[o] = "pay_form" /\ "payment" \in cur'[o].err)
              => /\ rentals' = rentals
                 /\ cars' = cars
                 /\ payments' = payments
                 /\ pc'[o] = "pay_form"
                 /\ toast'[o] = {MsgPaymentFailed}
        /\ (pc[o] = "pay_updates" /\ <<rentals, cars>>' # <<rentals, cars>>)
              => \E i \in 1..Len(payments) : payments[i] = InsertedPayment(o)]_vars

\* C16 witness: the payment insert has failed; the rental is still Ongoing
\* without a return date, its car is still Rented, nothing was stored
C16_Witness ==
    \E o \in Operators :
        /\ pc[o] = "pay_form"
        /\ "payment" \in cur[o].err
        /\ toast[o] = {MsgPaymentFailed}
        /\ payments = <<>>
        /\ rentals[selectedRental[o].rental_id].status = "Ongoing"
        /\ rentals[selectedRental[o].rental_id].return_date = NoDate
        /\ cars[selectedRental[o].car_id].status = "Rented"

\* session o takes a step of Rentals.handleCancel / rentalService.cancel
CancelStep(o) ==
    \/ pc[o] \in {"cancel_rental", "cancel_car"}
    \/ pc[o] = "idle" /\ pc'[o] = "cancel_rental"

\* C17: cancelling a rental writes only that rental's status (to Cancelled)
\* and the status of its car: the rental's return_date and total_cost, every
\* other rental, every other car, and all payment records are unchanged.
C17_CancelFrame ==
    [][\A o \in Operators :
        CancelStep(o)
            => /\ payments' = payments
               /\ Len(rentals') = Len(rentals)
               /\ \A i \in 1..Len(rentals) :
                     /\ rentals'[i] = [rentals[i] EXCEPT !.status = rentals'[i].status]
                     /\ rentals'[i].status # rentals[i].status
                           => i = cur[o].rid /\ rentals'[i].status = "Cancelled"
               /\ DOMAIN cars' = DOMAIN cars
               /\ \A c \in DOMAIN cars :
                     /\ cars'[c] = [cars[c] EXCEPT !.status = cars'[c].status]
                     /\ cars'[c].status # cars[c].status => c = cur[o].car]_vars

\* C17 witness: a rental with a stored payment of 60 has been cancelled: the
\* payment is still there, the rental has no return date and costs 150
C17_Witness ==
    \E o \in Operators :
        /\ pc[o] = "refetch"
        /\ MsgRentalCancelled \in toast[o]
        /\ rentals[cur[o].rid].status = "Cancelled"
        /\ rentals[cur[o].rid].return_date = NoDate
        /\ rentals[cur[o].rid].total_cost = 150
        /\ SumAmounts(PaymentsOf(cur[o].rid)) = 60
        /\ cars[cur[o].car].status = "Available"

\* the sum of total_cost over the rentals whose ids are in ids
RECURSIVE TotalCostOf(_)
TotalCostOf(ids) ==
    IF ids = {} THEN 0
    ELSE LET i == CHOOSE x \in ids : TRUE
         IN rentals[i].total_cost + TotalCostOf(ids \ {i})

\* session o shows a report
HasStats(o) == stats[o] # NoStats

\* C18: the revenue report for a cutoff is the sum of total_cost over exactly
\* the rentals with status Completed and rental_date >= cutoff; Ongoing and
\* Cancelled rentals and rentals before the cutoff contribute nothing.
C18_Revenue ==
    \A o \in Operators :
        HasStats(o) =>
            stats[o].totalRevenue =
                TotalCostOf({i \in 1..Len(rentals) :
                                /\ rentals[i].status = "Completed"
                                /\ rentals[i].rental_date >= stats[o].startDate})

\* C18 witness: Completed 100 and 200, Cancelled 500 and three Ongoing
\* rentals give a revenue of 300
C18_Witness ==
    \E o \in Operators :
        /\ HasStats(o)
        /\ rentals = SampleRentals
        /\ stats[o].totalRevenue = 300

\* the rentals a top report counts for a cutoff
CountedRentals(startDate) ==
    {i \in 1..Len(rentals) : /\ rentals[i].status # "Cancelled"
                             /\ rentals[i].rental_date >= startDate}

CountedOfCar(startDate, c) ==
    {i \in CountedRentals(startDate) : rentals[i].car_id = c}

CountedOfCustomer(startDate, c) ==
    {i \in CountedRentals(startDate) : rentals[i].customer_id = c}

CountedCars(startDate) == {rentals[i].car_id : i \in CountedRentals(startDate)}

CountedCustomers(startDate) == {rentals[i].customer_id : i \in CountedRentals(startDate)}

\* C19: the top-cars report has one entry per distinct car among the
\* non-Cancelled rentals with rental_date >= cutoff, each with the number of
\* those rentals of the car; it has at most 5 entries, in non-increasing
\* order of rental_count, and no car left out has a strictly larger count
\* than a car in the report.
C19_TopCars ==
    \A o \in Operators :
        HasStats(o) =>
            LET top == stats[o].topCars
                since == stats[o].startDate
            IN /\ Len(top) = Min(TopN, Cardinality(CountedCars(since)))
               /\ \A i \in 1..Len(top) :
                     /\ top[i].car \in CountedCars(since)
                     /\ top[i].rental_count = Cardinality(CountedOfCar(since, top[i].car))
               /\ \A i \in 1..Len(top), j \in 1..Len(top) :
                     /\ i # j => top[i].car # top[j].car
                     /\ i < j => top[i].rental_count >= top[j].rental_count
               /\ \A c \in CountedCars(since) :
                     (\A i \in 1..Len(top) : top[i].car # c)
                        => \A i \in 1..Len(top) :
                              top[i].rental_count >= Cardinality(CountedOfCar(since, c))

\* C19 witness: six cars have counted rentals, one of them two; the report
\* has five entries and starts with the car that has two
C19_Witness ==
    \E o \in Operators :
        /\ HasStats(o)
        /\ Cardinality(CountedCars(stats[o].startDate)) = TopN + 1
        /\ Len(stats[o].topCars) = TopN
        /\ stats[o].topCars[1].rental_count = 2
        /\ stats[o].topCars[TopN].rental_count = 1

\* C20: the top-customers report has one entry per customer among the
\* non-Cancelled rentals with rental_date >= cutoff, with rental_count the
\* number of those rentals and total_spent the sum of their total_cost; it
\* has at most 5 entries, in non-increasing order of total_spent.
C20_TopCustomers ==
    \A o \in Operators :
        HasStats(o) =>
            LET top == stats[o].topCustomers
                since == stats[o].startDate
            IN /\ Len(top) = Min(TopN, Cardinality(CountedCustomers(since)))
               /\ \A i \in 1..Len(top) :
                     /\ top[i].customer \in CountedCustomers(since)
                     /\ top[i].rental_count =
                           Cardinality(CountedOfCustomer(since, top[i].customer))
                     /\ top[i].total_spent =
                           TotalCostOf(CountedOfCustomer(since, top[i].customer))
               /\ \A i \in 1..Len(top), j \in 1..Len(top) :
                     /\ i # j => top[i].customer # top[j].customer
                     /\ i < j => top[i].total_spent >= top[j].total_spent

\* C20 witness: six customers; the first entry spent most with one rental,
\* a later entry has two rentals
C20_Witness ==
    \E o \in Operators :
        /\ HasStats(o)
        /\ Cardinality(CountedCustomers(stats[o].startDate)) = TopN + 1
        /\ Len(stats[o].topCustomers) = TopN
        /\ stats[o].topCustomers[1].rental_count = 1
        /\ stats[o].topCustomers[2].rental_count = 2
        /\ stats[o].topCustomers[1].total_spent > stats[o].topCustomers[2].total_spent

\* the position, among the rows a top report reads for a cutoff, of the first
\* row whose column key holds id
FirstRow(startDate, key, id) ==
    LET rows == RowsSince(startDate)
    IN CHOOSE i \in 1..Len(rows) :
          /\ rows[i][key] = id
          /\ \A j \in 1..Len(rows) : rows[j][key] = id => i <= j

\* C21: in the top-cars and the top-customers report, entries that tie on
\* the sort key (rental_count for cars, total_spent for customers) appear in
\* the order in which their first rental row appears in the input rows.
C21_TiesInRowOrder ==
    \A o \in Operators :
        HasStats(o) =>
            LET since == stats[o].startDate
                cars5 == stats[o].topCars
                cust5 == stats[o].topCustomers
            IN /\ \A i \in 1..Len(cars5), j \in 1..Len(cars5) :
                     (i < j /\ cars5[i].rental_count = cars5[j].rental_count)
                        => FirstRow(since, "car_id", cars5[i].car)
                              < FirstRow(since, "car_id", cars5[j].car)
               /\ \A i \in 1..Len(cust5), j \in 1..Len(cust5) :
                     (i < j /\ cust5[i].total_spent = cust5[j].total_spent)
                        => FirstRow(since, "customer_id", cust5[i].customer)
                              < FirstRow(since, "customer_id", cust5[j].customer)

\* session o has submitted a form that did not pass validation
SubmissionRejected(o) == "validation" \in cur[o].err

\* C22: a form submission that fails validation (missing required field,
\* non-positive daily rate or payment amount, value outside the status enum,
\* unselected customer or car) issues no database write: all tables are
\* unchanged.  So every row a submission writes passed the validation.
C22_InvalidNotWritten ==
    [][/\ \A o \in Operators : SubmissionRejected(o)' => db' = db
       /\ \A i \in (1..Len(rentals')) \ (1..Len(rentals)) :
             /\ rentals'[i].customer_id > 0
             /\ rentals'[i].car_id > 0
             /\ rentals'[i].rental_date # NoDate
       /\ \A i \in (1..Len(payments')) \ (1..Len(payments)) : payments'[i].amount > 0
       /\ \A c \in DOMAIN cars' :
             (c \notin DOMAIN cars \/ cars'[c].daily_rate # cars[c].daily_rate)
                => cars'[c].daily_rate > 0 /\ cars'[c].status \in CarStatuses]_vars

\* C22 witness: with a rental and a payment stored, a submission was
\* rejected by the validation
C22_Witness ==
    \E o \in Operators :
        /\ SubmissionRejected(o)
        /\ rentals # <<>>
        /\ payments # <<>>
        /\ pc[o] = "pay_form"

\* C23: the content of a route other than /login is rendered only while the
\* auth store holds a non-null user and is not loading; whenever loading has
\* finished and the user is null (after sign-out or a failed session lookup
\* too), the application is at /login.
C23_ProtectedContent ==
    \A o \in Operators :
        /\ auth[o].screen = "content"
              => /\ auth[o].location # LoginPath
                 /\ auth[o].user # NoUser
                 /\ ~auth[o].isLoading
        /\ (auth[o].location # LoginPath /\ auth[o].screen # "content")
              => auth[o].screen \in {"spinner", "blank"}
        /\ (~auth[o].isLoading /\ auth[o].user = NoUser)
              => auth[o].location = LoginPath /\ auth[o].screen = "login"

\* C23 witness: the session lookup of a protected route has failed and the
\* application is at /login
C23_Witness ==
    \E o \in Operators :
        /\ auth[o].answer = "throw"
        /\ ~auth[o].isLoading
        /\ auth[o].user = NoUser
        /\ auth[o].location = LoginPath

\* C24: Completed and Cancelled are terminal: once a rental is Completed or
\* Cancelled, no cancel, completion or payment submission (started from a
\* stale rental list or not) changes its status again.
C24_TerminalStatus ==
    [][\A i \in 1..Len(rentals) :
        rentals[i].status \in {"Completed", "Cancelled"}
            => rentals'[i].status = rentals[i].status]_vars

\* no session is between the writes of a creation, a cancellation or a
\* full payment
NoMultiWriteInProgress ==
    \A o \in Operators : pc[o] \notin {"create_car", "cancel_rental", "cancel_car", "pay_updates"}

\* C25: whenever no multi-write operation is in progress, a car has status
\* Rented if and only if at least one Ongoing rental references it.
C25_RentedIffOngoing ==
    NoMultiWriteInProgress
        => \A c \in DOMAIN cars : cars[c].status = "Rented" <=> OngoingRentalsOf(c) # {}

\* C26: whenever no payment submission is in progress, every rental whose
\* stored payments sum to at least its total_cost has a status other than
\* Ongoing.
C26_PaidNotOngoing ==
    (\A o \in Operators : pc[o] # "pay_updates")
        => \A i \in 1..Len(rentals) :
              SumAmounts(PaymentsOf(i)) >= rentals[i].total_cost
                  => rentals[i].status # "Ongoing"

\* session o takes the first step of a call of rentalService.cancel or
\* rentalService.complete with the id in cur'[o].rid
ServiceCallStep(o) ==
    /\ pc[o] = "idle"
    /\ pc'[o] \in {"idle", "cancel_rental", "complete_rental"}
    /\ cur'[o].rid # 0

\* C27: rentalService.complete and rentalService.cancel called with an id
\* for which no rental can be read fail with 'Rental not found' and issue no
\* write: no table changes and the call is over.  A call that goes on to its
\* writes has read the rental and its car.
C27_NotFoundNoWrite ==
    [][\A o \in Operators :
        ServiceCallStep(o)
            => /\ (cur'[o].rid \notin 1..Len(rentals) \/ RentalNotFound \in cur'[o].err)
                    => /\ cur'[o].err = {RentalNotFound}
                       /\ pc'[o] = "idle"
                       /\ db' = db
               /\ pc'[o] # "idle"
                    => /\ cur'[o].rid \in 1..Len(rentals)
                       /\ cur'[o].car = rentals[cur'[o].rid].car_id
                       /\ db' = db]_vars

\* C27 witness: with a rental stored, rentalService.complete was called with
\* an id that no rental has, and failed
C27_Witness ==
    \E o \in Operators :
        /\ pc[o] = "idle"
        /\ cur[o].err = {RentalNotFound}
        /\ cur[o].rid \notin 1..Len(rentals)
        /\ rentals # <<>>
        /\ toast[o] = {}

\* C28: a rental's total_cost, customer_id, car_id and rental_date never
\* change after the rental is created: creation, payment submission,
\* completion and cancellation write only status and return_date on existing
\* rentals, and remove none.
C28_RentalFieldsKept ==
    [][/\ Len(rentals') >= Len(rentals)
       /\ \A i \in 1..Len(rentals) :
             rentals'[i] = [rentals[i] EXCEPT !.status = rentals'[i].status,
                                              !.return_date = rentals'[i].return_date]]_vars

\* C28 witness: a rental of 150 was completed by rentalService.complete with
\* tomorrow as its return date, after a payment of 60; it is as it was created
\* but for status and return_date
C28_Witness ==
    \E o \in Operators :
        /\ pc[o] = "idle"
        /\ cur[o].returnDate = Today + 1
        /\ cur[o].err = {}
        /\ rentals[cur[o].rid] =
              [rental_id |-> cur[o].rid, customer_id |-> 1, car_id |-> 1,
               rental_date |-> Today, return_date |-> Today + 1, total_cost |-> 150,
               status |-> "Completed"]
        /\ SumAmounts(PaymentsOf(cur[o].rid)) = 60

\* C29: payments are append-only in the lifecycle flows: every payment that
\* payment submission inserts has status Paid and amount > 0, and no rental
\* creation, completion, cancellation or payment submission deletes or
\* modifies an existing payment, so the sum of the payments of a rental never
\* decreases.
C29_PaymentsAppendOnly ==
    [][/\ Len(payments') >= Len(payments)
       /\ SubSeq(payments', 1, Len(payments)) = payments
       /\ \A i \in (1..Len(payments')) \ (1..Len(payments)) :
             payments'[i].status = "Paid" /\ payments'[i].amount > 0
       /\ \A id \in 1..Len(rentals) :
             SumAmounts(PaymentsOf(id))' >= SumAmounts(PaymentsOf(id))]_vars

\* C29 witness: a rental with a payment of 60 stored was cancelled, and
\* a second payment of 90 was then taken for it: both payments are stored
C29_Witness ==
    /\ Len(payments) = 2
    /\ payments[1] = [rental_id |-> 1, amount |-> 60, status |-> "Paid"]
    /\ payments[2] = [rental_id |-> 1, amount |-> 90, status |-> "Paid"]
    /\ rentals[1].status = "Cancelled"

\* a getCurrentUser call of session o settles in this step
SettleStep(o) ==
    /\ auth'[o].pending = auth[o].pending - 1
    /\ auth'[o].answer \in Answers

\* C30: session initialisation always leaves the loading state: once
\* auth.getCurrentUser settles, isLoading is false, and user is the returned
\* user on success and null on failure; so a protected route that shows the
\* spinner eventually renders its content or redirects to /login.
C30_InitializeLeavesLoading ==
    /\ [][\A o \in Operators :
            SettleStep(o)
                => /\ ~auth'[o].isLoading
                   /\ auth'[o].user = IF auth'[o].answer = "user" THEN TheUser ELSE NoUser
                   /\ auth'[o].screen \in {"content", "login"}]_vars
    /\ \A o \in Sessions :
          (auth[o].screen = "spinner") ~> (auth[o].screen \in {"content", "login"})

\* C30 witness: the session lookup of a protected route answered the user,
\* and the route's content shows
C30_Witness ==
    \E o \in Operators :
        /\ auth[o].answer = "user"
        /\ auth[o].pending = 0
        /\ ~auth[o].isLoading
        /\ auth[o].user = TheUser
        /\ auth[o].screen = "content"

====
